---- MODULE Spec2Model ----
(***************************************************************************)
(* Model of scripts/Malaysia/MY_RV_Source5.PY: the trade-in quote scraper. *)
(* The state is the state of __main__ (retry loop) and of one call of      *)
(* scrape_trade_in_prices (browser sessions, loop indices, the result      *)
(* DataFrame, the output file).  The browser and the vendor page are the   *)
(* environment: every browser command may succeed, fail with the session   *)
(* still alive, or find/leave the session dead.                            *)
(***************************************************************************)
EXTENDS Integers, Sequences, FiniteSets, TLC

\* ------------------------------------------------------------------ bounds
MaxModels == 2      \* options in the model dropdown of one brand
MaxRetry == 1       \* --retry is 0 or MaxRetry
MaxFaults == 1      \* environment deviations (failed commands, deaths, unusual pages) per invocation
MaxOptions == 3     \* options of the brand dropdown, the placeholder included

\* ------------------------------------------------------- program constants
brands == <<"Apple", "Samsung">>
screen_conditions == <<"Flawless", "Good", "Damaged">>
issue_checkboxes == <<"CBAT", "CTON", "CBRK", "CLIQ", "CMIS">>

None == <<"None">>  \* Python's None where a text is expected
Empty == <<>>       \* the empty string ""

\* ------------------------------------------------------------ text helpers
\* A text is a sequence of one-character strings.
IsDigit(c) == c \in {"0", "1", "2", "3", "4", "5", "6", "7", "8", "9"}
IsSpace(c) == c \in {" "}

\* first index j >= i with j > Len(t) or t[j] not a whitespace / not a digit
EndSpaces(t, i) == CHOOSE j \in i..(Len(t) + 1) :
    /\ \A k \in i..(j - 1) : IsSpace(t[k])
    /\ (j = Len(t) + 1 \/ ~IsSpace(t[j]))
EndDigits(t, i) == CHOOSE j \in i..(Len(t) + 1) :
    /\ \A k \in i..(j - 1) : IsDigit(t[k])
    /\ (j = Len(t) + 1 \/ ~IsDigit(t[j]))

\* str.strip()
strip(t) ==
    IF \A k \in 1..Len(t) : IsSpace(t[k]) THEN Empty
    ELSE LET a == CHOOSE i \in 1..Len(t) : ~IsSpace(t[i]) /\ \A k \in 1..(i - 1) : IsSpace(t[k])
             b == CHOOSE i \in 1..Len(t) : ~IsSpace(t[i]) /\ \A k \in (i + 1)..Len(t) : IsSpace(t[k])
         IN SubSeq(t, a, b)

\* "RM" in text
ContainsRM(t) == \E i \in 1..(Len(t) - 1) : t[i] = "R" /\ t[i + 1] = "M"

\* the pattern RM\s*\d+ matches starting at index i
CurrencyAt(t, i) ==
    /\ i + 1 <= Len(t)
    /\ t[i] = "R" /\ t[i + 1] = "M"
    /\ LET j == EndSpaces(t, i + 2) IN j <= Len(t) /\ IsDigit(t[j])

\* JavaScript text.match(/RM\s*\d+/) and the existence of a Python match
MatchesCurrency(t) == \E i \in 1..Len(t) : CurrencyAt(t, i)

\* mutant: group 0, the whole match with its currency marker
Group0At(t, i) ==
    LET j == EndSpaces(t, i + 2)
        k == EndDigits(t, j)
    IN IF k + 1 <= Len(t) /\ t[k] = "." /\ IsDigit(t[k + 1])
       THEN SubSeq(t, i, EndDigits(t, k + 1) - 1)
       ELSE SubSeq(t, i, k - 1)

\* group 1 of the match of RM\s*(\d+(?:\.\d+)?) starting at index i
Group1At(t, i) ==
    LET j == EndSpaces(t, i + 2)
        k == EndDigits(t, j)
    IN IF k + 1 <= Len(t) /\ t[k] = "." /\ IsDigit(t[k + 1])
       THEN SubSeq(t, j, EndDigits(t, k + 1) - 1)
       ELSE SubSeq(t, j, k - 1)

\* re.search(r'RM\s*(\d+(?:\.\d+)?)', t): group 1 of the leftmost match, or None
re_search_group1(t) ==
    IF MatchesCurrency(t)
    THEN Group1At(t, CHOOSE i \in 1..Len(t) : CurrencyAt(t, i) /\ \A k \in 1..(i - 1) : ~CurrencyAt(t, k))
    ELSE None

\* lines 291-297 of extract_price: the numeric value of a price text
parse_price(price_text) ==
    IF price_text # None /\ price_text # Empty /\ ContainsRM(price_text)
       /\ re_search_group1(price_text) # None
    THEN re_search_group1(price_text)
    ELSE Empty

\* --------------------------------------------------------- the result page
\* A result page is what the browser shows after the submit click:
\*   sel   - element.text of the first of price_selectors that becomes visible
\*           within short_wait, or None when all five selectors time out
\*   elems - textContent of the document's elements, in document order
NominalPage == [sel |-> <<"R", "M", "5", "0">>, elems |-> << <<"R", "M", "5", "0">> >>]
OtherPages == {
    [sel |-> <<"R", "M", " ", "1", ",", "2", "3", "4">>, elems |-> << <<"R", "M", " ", "1", ",", "2", "3", "4">> >>],
    [sel |-> None, elems |-> << <<"O", "K">>, <<" ", "R", "M", "1", "2", "3", "4", ".", "5", "0", " ">> >>],
    [sel |-> <<"O", "K">>, elems |-> << <<"O", "K">>, <<"R", "M", "5", "0">> >>],
    [sel |-> <<" ">>, elems |-> << <<"M", "R", "5">>, <<"R", "M", ".", "5">> >>] }
ResultPages == {NominalPage} \cup OtherPages
NoPage == [sel |-> None, elems |-> <<>>]

\* lines 280-289: the document scan returns the trimmed text of the first element
\* matching /RM\s*\d+/, or ""
js_scan(elems) ==
    IF \E i \in 1..Len(elems) : MatchesCurrency(strip(elems[i]))
    THEN strip(elems[CHOOSE i \in 1..Len(elems) :
             MatchesCurrency(strip(elems[i])) /\ \A k \in 1..(i - 1) : ~MatchesCurrency(strip(elems[k]))])
    ELSE Empty

\* lines 268-289: the text the price is parsed from
price_text_of(p) ==
    LET fromSelectors == IF p.sel = None THEN None ELSE strip(p.sel)
    IN IF fromSelectors = None \/ fromSelectors = Empty THEN js_scan(p.elems) ELSE fromSelectors

\* extract_price on a page that could be read without an exception
extract_price(p) == parse_price(price_text_of(p))

\* --------------------------------------------------------- the condition form
\* What the form's DOM answers to the scripts of fill_form: each of m1, m2, m3
\* (the three screen strategies), body (CPBP01) and none (CISS) is "true",
\* "false" (element absent) or "raise" (the script call raised).
DomAnswers == {"true", "false", "raise"}
\* mutant: Damaged is given the code next to Good's
condition_id_map_consecutive == [Flawless |-> "CPTS01", Good |-> "CPTS02", Damaged |-> "CPTS03"]
condition_id_map == [Flawless |-> "CPTS01", Good |-> "CPTS02", Damaged |-> "CPTS04"]

\* js_check_radio / js_check_checkbox: an exception is caught and becomes False
js_check_radio(answer) == answer = "true"
js_check_checkbox(answer) == answer = "true"

\* select_screen_condition: unmapped condition -> False; else the first strategy
\* that answers true
select_screen_condition(condition, dom) ==
    IF condition \notin DOMAIN condition_id_map THEN FALSE
    ELSE IF js_check_radio(dom.m1) THEN TRUE
    ELSE IF dom.m2 = "true" THEN TRUE
    ELSE IF dom.m3 = "true" THEN TRUE
    ELSE FALSE

\* fill_form: the results of the body radio and of the checklist are printed, not tested
fill_form(screen_condition, dom) ==
    IF ~select_screen_condition(screen_condition, dom) THEN FALSE
    ELSE LET body_flawless_checked == js_check_radio(dom.body)
             none_checked == js_check_checkbox(dom.none)
         IN TRUE

\* ------------------------------------------------------------------- state
VARIABLES
    mpc,         \* __main__: "loop" (top of the retry loop), "call" (inside scrape_trade_in_prices), "done"
    attempt,     \* __main__: the loop variable of range(args.retry + 1)
    retry,       \* args.retry
    success,     \* __main__: success
    result,      \* __main__: result, what the last call of scrape_trade_in_prices returned
    pc,          \* position inside scrape_trade_in_prices
    sessions,    \* every browser session created so far: "live", "dead" (unresponsive) or "quit"
    driver,      \* the session the variable driver refers to (0: unbound)
    wait,        \* the session the helper wait is bound to
    short_wait,  \* the session the helper short_wait is bound to
    bi, mi, ci,  \* positions of the loops over brands, models, screen_conditions
    nmodels,     \* len(models) for the current brand
    results_df,  \* the rows of results_df
    xlsx,        \* the output file: whether it exists, and its rows
    form,        \* the current WorkUnit's form: what fill_form's three sub-steps obtained
    page,        \* the result page extract_price read for the current WorkUnit
    price,       \* the value submit_form_and_get_price returned
    attempted,   \* history: positions (bi, mi, ci) whose loop body was entered in this run
    filled,      \* history: positions for which fill_form returned True in this run
    abort,       \* history: what sent the run to the handler of line 555
    died_at,     \* history: the position (pc) at which the session of driver died, or "none"
    frame,       \* the browsing context of driver: the loop position (bi, mi, ci) in which
                 \* switch_to.frame(0) entered the frame; NoFrame for the top-level document
    failed_at,   \* history: the stage (pc) whose exception the handler of line 539 is handling, or "none"
    faults,      \* environment deviations used so far
    screen_call, \* one activation of select_screen_condition taken alone: its argument, the
                 \* DOM's answers, its position, the scripts it ran and its result
    brand_call,  \* the two brand selections taken alone: the brand, the dropdown's option
                 \* texts, and what lines 374-396 and lines 462-480 selected
    form_call    \* two activations of fill_form side by side: for each its argument, the
                 \* DOM's answers, its position, the screen radio it set and the scripts
                 \* of its steps 2 and 3

vars == <<mpc, attempt, retry, success, result, pc, sessions, driver, wait, short_wait, bi, mi, ci,
          nmodels, results_df, xlsx, form, page, price, attempted, filled, abort, died_at, failed_at, frame, faults,
          screen_call, brand_call, form_call>>

mainVars == <<mpc, attempt, retry, success, result>>
sessVars == <<sessions, driver, wait, short_wait>>
loopVars == <<bi, mi, ci, nmodels>>
dataVars == <<results_df, xlsx>>
wuVars == <<form, page, price>>
histVars == <<attempted, filled, abort>>
callVars == <<screen_call, brand_call, form_call>>

\* the top-level document: after driver.get(URL), and in a new browser
NoFrame == <<0, 0, 0>>

NoForm == [screen |-> FALSE, body |-> FALSE, none |-> FALSE]

\* the output file before anything was written to output_excel_path
NoFile == [exists |-> FALSE, rows |-> <<>>]

\* lines 532, 565: results_df.to_excel(output_excel_path) replaces the file
to_excel(df) == [exists |-> TRUE, rows |-> df]

\* ------------------------------------------------------------- environment
\* The outcome of one browser command on the session driver refers to:
\*   "ok"   - it returns
\*   "fail" - it raises (timeout, missing element) and the session stays alive
\*   "die"  - the session becomes unresponsive and the command raises
\*   "dead" - the session was already unresponsive or closed: the command raises
CommandOutcomes ==
    IF sessions[driver] # "live" THEN {"dead"}
    ELSE {"ok"} \cup (IF faults < MaxFaults THEN {"fail", "die"} ELSE {})
Cost(o) == IF o \in {"fail", "die"} THEN 1 ELSE 0
SessionsAfter(o) == IF o = "die" THEN [sessions EXCEPT ![driver] = "dead"] ELSE sessions
Command(o) ==
    /\ sessions' = SessionsAfter(o)
    /\ faults' = faults + Cost(o)
    /\ died_at' = IF o = "die" THEN pc ELSE died_at

\* setup_driver: handle = 0 when it raises.  Chrome() (line 43) creates the session;
\* set_page_load_timeout and execute_script (lines 46, 49) are commands on it and
\* may raise after it was created.
setup_driver ==
    {[sessions |-> Append(sessions, "live"), handle |-> Len(sessions) + 1, cost |-> 0]}
    \cup (IF faults < MaxFaults
          THEN {[sessions |-> sessions, handle |-> 0, cost |-> 1],
                [sessions |-> Append(sessions, "live"), handle |-> 0, cost |-> 1],
                [sessions |-> Append(sessions, "dead"), handle |-> 0, cost |-> 1]}
          ELSE {})

\* line 548: setup_driver called by the recovery, after the death of the browser
\* that the fault budget has paid for.  What ended the browser (the machine out of
\* memory, the chromedriver binary gone) can also end the start of the next one, so
\* the failures of this call are part of the same fault.
setup_driver_after_death ==
    {[sessions |-> Append(sessions, "live"), handle |-> Len(sessions) + 1, cost |-> 0],
     [sessions |-> sessions, handle |-> 0, cost |-> 0],
     [sessions |-> Append(sessions, "live"), handle |-> 0, cost |-> 0],
     [sessions |-> Append(sessions, "dead"), handle |-> 0, cost |-> 0]}

LiveSessions == {i \in 1..Len(sessions) : sessions[i] = "live"}

\* ---------------------------------------------------------------- the loops
Position == <<bi, mi, ci>>

\* the next iteration of "for brand in brands", or the end of the try block
NextBrand ==
    /\ mi' = 0 /\ ci' = 0 /\ nmodels' = 0
    /\ IF bi < Len(brands)
       THEN bi' = bi + 1 /\ pc' = "b_nav"
       ELSE bi' = bi /\ pc' = "finally"

\* the next iteration of "for model in models" (also what break at line 551 reaches)
NextModel ==
    IF mi < nmodels
    THEN mi' = mi + 1 /\ ci' = 1 /\ pc' = "nav" /\ UNCHANGED <<bi, nmodels>>
    ELSE NextBrand

\* mutant: "continue" written as "break"
NextCondition_break == NextModel

\* the next iteration of "for condition in screen_conditions" (also what continue reaches)
NextCondition ==
    IF ci < Len(screen_conditions)
    THEN ci' = ci + 1 /\ pc' = "nav" /\ UNCHANGED <<bi, mi, nmodels>>
    ELSE NextModel

\* mutant: after the session was replaced the current model is started again
AfterRecovery_restart_model ==
    ci' = 1 /\ pc' = "nav" /\ UNCHANGED <<bi, mi, nmodels>>

\* line 551: break, after the session was replaced
AfterRecovery == NextModel

\* the handler of line 555 followed by finally
MainProcessError(why) == pc' = "finally" /\ abort' = why

\* ------------------------------------------------------------------- Init
InitProgram ==
    /\ mpc = "loop" /\ attempt = 0 /\ retry \in {0, MaxRetry} /\ success = FALSE /\ result = FALSE
    /\ pc = "idle"
    /\ sessions = <<>> /\ driver = 0 /\ wait = 0 /\ short_wait = 0
    /\ bi = 0 /\ mi = 0 /\ ci = 0 /\ nmodels = 0
    /\ results_df = <<>> /\ xlsx = NoFile
    /\ form = NoForm /\ page = NoPage /\ price = Empty
    /\ attempted = {} /\ filled = {} /\ abort = "none" /\ died_at = "none" /\ failed_at = "none"
    /\ frame = NoFrame
    /\ faults = 0

\* no activation of select_screen_condition is looked at on its own
NoScreenCall == [pc |-> "none", condition |-> "", dom |-> [m1 |-> "true", m2 |-> "true", m3 |-> "true"],
                 element_id |-> "None", calls |-> <<>>, result |-> FALSE]

\* no brand selection is looked at on its own
NoSelection == [by |-> "none", option |-> 0]
NoBrandCall == [pc |-> "none", brand |-> "", options |-> <<>>, listed |-> NoSelection, quoted |-> NoSelection]

\* no activation of fill_form is looked at on its own
NoRun == [pc |-> "none", condition |-> "",
          dom |-> [m1 |-> "true", m2 |-> "true", m3 |-> "true", body |-> "true", none |-> "true"],
          screen |-> "None", actions |-> <<>>, result |-> FALSE]
NoFormCall == <<NoRun, NoRun>>

Init == InitProgram /\ screen_call = NoScreenCall /\ brand_call = NoBrandCall /\ form_call = NoFormCall

\* ---------------------------------------------------------------- __main__
\* the next iteration of "for attempt in range(args.retry + 1)", or the loop's end
\* mutant: the loop of line 596 written as "while not success"
NextAttempt_until_success ==
    /\ attempt' = attempt
    /\ mpc' = "loop"
    /\ pc' = "idle"
    /\ UNCHANGED <<retry, success, result>>

NextAttempt ==
    /\ attempt' = attempt + 1
    /\ mpc' = IF attempt + 1 <= retry THEN "loop" ELSE "done"
    /\ pc' = "idle"
    /\ UNCHANGED <<retry, success, result>>

\* lines 596-607 and 69-94: the call of scrape_trade_in_prices up to the try block
CallScrape ==
    /\ mpc = "loop" /\ attempt <= retry
    /\ \E s \in setup_driver :
        /\ sessions' = s.sessions
        /\ faults' = faults + s.cost
        /\ driver' = s.handle /\ wait' = s.handle /\ short_wait' = s.handle
        /\ mpc' = "call"
        /\ pc' = IF s.handle = 0 THEN "raised" ELSE "b_nav"
    /\ results_df' = <<>>
    /\ bi' = 1 /\ mi' = 0 /\ ci' = 0 /\ nmodels' = 0
    /\ attempted' = {} /\ filled' = {} /\ abort' = "none" /\ died_at' = "none"
    /\ UNCHANGED <<attempt, retry, success, result, xlsx, wuVars>>
    /\ frame' = NoFrame
    /\ UNCHANGED <<callVars, failed_at>>

\* lines 611-615: the call raised
MainExcept ==
    /\ mpc = "call" /\ pc = "raised"
    /\ NextAttempt
    /\ UNCHANGED <<sessVars, loopVars, dataVars, wuVars, histVars, died_at, faults>>
    /\ UNCHANGED <<callVars, failed_at, frame>>

\* mutant: any returned value counts as success
MainReturn_any_result ==
    /\ mpc = "call" /\ pc = "returned"
    /\ success' = TRUE /\ mpc' = "done" /\ pc' = "idle" /\ UNCHANGED <<attempt, retry, result>>
    /\ UNCHANGED <<sessVars, loopVars, dataVars, wuVars, histVars, died_at, faults>>
    /\ UNCHANGED <<callVars, failed_at, frame>>

\* mutant: the returned value is not tested, every attempt is run
MainReturn_every_attempt ==
    /\ mpc = "call" /\ pc = "returned"
    /\ NextAttempt
    /\ UNCHANGED <<sessVars, loopVars, dataVars, wuVars, histVars, died_at, faults>>
    /\ UNCHANGED <<callVars, failed_at, frame>>

\* lines 608-610: the call returned
MainReturn ==
    /\ mpc = "call" /\ pc = "returned"
    /\ IF result
       THEN success' = TRUE /\ mpc' = "done" /\ pc' = "idle" /\ UNCHANGED <<attempt, retry, result>>
       ELSE NextAttempt
    /\ UNCHANGED <<sessVars, loopVars, dataVars, wuVars, histVars, died_at, faults>>
    /\ UNCHANGED <<callVars, failed_at, frame>>

\* ------------------------------------------------------------ the brand loop
\* lines 330-340: driver.get(URL), outside any inner try
BrandNavigate ==
    /\ pc = "b_nav"
    /\ \E o \in CommandOutcomes :
        /\ Command(o)
        /\ IF o = "ok" THEN pc' = "b_frame" /\ abort' = abort
           ELSE MainProcessError("brand_nav")
    /\ UNCHANGED <<mainVars, driver, wait, short_wait, loopVars, dataVars, wuVars, attempted, filled>>
    /\ frame' = IF sessions'[driver] = "live" /\ pc' = "b_frame" THEN NoFrame ELSE frame
    /\ UNCHANGED <<callVars, failed_at>>

\* lines 343-364: wait for the iframe and switch to it; any failure is "continue"
BrandFrame ==
    /\ pc = "b_frame"
    /\ \E o \in CommandOutcomes :
        /\ Command(o)
        /\ IF o = "ok" THEN pc' = "b_enum" /\ UNCHANGED loopVars
           ELSE NextBrand
    /\ UNCHANGED <<mainVars, driver, wait, short_wait, dataVars, wuVars, histVars>>
    /\ frame' = IF pc' = "b_enum" THEN <<bi, 0, 0>> ELSE frame
    /\ UNCHANGED <<callVars, failed_at>>

\* len(models) after lines 405-414: no model, one, or as many as the bound allows
ModelCounts == {0, 1, MaxModels}

\* lines 367-422: select the brand and read the model dropdown (n options are left
\* after models[:n_scrape]); any failure is "continue"
BrandEnumerate ==
    /\ pc = "b_enum"
    /\ \E o \in CommandOutcomes :
        /\ Command(o)
        /\ IF o = "ok"
           THEN \E n \in ModelCounts :
                   IF n = 0 THEN NextBrand
                   ELSE nmodels' = n /\ mi' = 1 /\ ci' = 1 /\ pc' = "nav" /\ bi' = bi
           ELSE NextBrand
    /\ UNCHANGED <<mainVars, driver, wait, short_wait, dataVars, wuVars, histVars>>
    /\ UNCHANGED <<callVars, failed_at, frame>>

\* --------------------------------------------------------- one WorkUnit
\* lines 429-436: the loop body starts with driver.get(URL), outside any inner try
Navigate ==
    /\ pc = "nav"
    /\ attempted' = attempted \cup {Position}
    /\ \E o \in CommandOutcomes :
        /\ Command(o)
        /\ IF o = "ok" THEN pc' = "frame" /\ abort' = abort
           ELSE MainProcessError("wu_nav")
    /\ UNCHANGED <<mainVars, driver, wait, short_wait, loopVars, dataVars, wuVars, filled>>
    /\ frame' = IF pc' = "frame" THEN NoFrame ELSE frame
    /\ UNCHANGED <<callVars, failed_at>>

\* mutant: a WorkUnit without its frame goes on to the selection
SwitchFrame_without_continue ==
    /\ pc = "frame"
    /\ \E o \in CommandOutcomes :
        /\ Command(o)
        /\ pc' = "sel_brand" /\ UNCHANGED loopVars
        /\ frame' = IF o = "ok" THEN Position ELSE frame
    /\ UNCHANGED <<mainVars, driver, wait, short_wait, dataVars, wuVars, histVars>>
    /\ UNCHANGED <<callVars, failed_at>>

\* lines 439-452: wait for the iframe and switch to it; any failure is "continue"
SwitchFrame ==
    /\ pc = "frame"
    /\ \E o \in CommandOutcomes :
        /\ Command(o)
        /\ IF o = "ok" THEN pc' = "sel_brand" /\ UNCHANGED loopVars
           ELSE NextCondition
    /\ UNCHANGED <<mainVars, driver, wait, short_wait, dataVars, wuVars, histVars>>
    /\ frame' = IF pc' = "sel_brand" THEN Position ELSE frame
    /\ UNCHANGED <<callVars, failed_at>>

\* lines 455-483, inside the try of line 455: select the brand; an exception goes to
\* the handler of line 539
SelectBrand ==
    /\ pc = "sel_brand"
    /\ \E o \in CommandOutcomes :
        /\ Command(o)
        /\ pc' = IF o = "ok" THEN "sel_model" ELSE "handler"
        /\ failed_at' = IF o = "ok" THEN failed_at ELSE pc
    /\ UNCHANGED <<mainVars, driver, wait, short_wait, loopVars, dataVars, wuVars, histVars>>
    /\ UNCHANGED <<callVars, frame>>

\* lines 485-492: select the model by its exact text
SelectModel ==
    /\ pc = "sel_model"
    /\ \E o \in CommandOutcomes :
        /\ Command(o)
        /\ pc' = IF o = "ok" THEN "click_next" ELSE "handler"
        /\ failed_at' = IF o = "ok" THEN failed_at ELSE pc
    /\ UNCHANGED <<mainVars, driver, wait, short_wait, loopVars, dataVars, wuVars, histVars>>
    /\ UNCHANGED <<callVars, frame>>

\* lines 494-502: click Next
ClickNext ==
    /\ pc = "click_next"
    /\ \E o \in CommandOutcomes :
        /\ Command(o)
        /\ pc' = IF o = "ok" THEN "fill" ELSE "handler"
        /\ failed_at' = IF o = "ok" THEN failed_at ELSE pc
    /\ UNCHANGED <<mainVars, driver, wait, short_wait, loopVars, dataVars, wuVars, histVars>>
    /\ UNCHANGED <<callVars, frame>>

\* what the form can answer: anything while the session lives, nothing but
\* exceptions from the moment it is dead
NominalDom == [m1 |-> "true", m2 |-> "true", m3 |-> "true", body |-> "true", none |-> "true"]
AllRaise == [m1 |-> "raise", m2 |-> "raise", m3 |-> "raise", body |-> "raise", none |-> "raise"]
AnyDom == [m1 : DomAnswers, m2 : DomAnswers, m3 : DomAnswers, body : DomAnswers, none : DomAnswers]
DeathDoms == {AllRaise, [AllRaise EXCEPT !.m1 = "true"], [AllRaise EXCEPT !.m1 = "true", !.body = "true"]}
FormOutcomes ==
    IF sessions[driver] # "live" THEN {[dom |-> AllRaise, o |-> "dead"]}
    ELSE {[dom |-> NominalDom, o |-> "ok"]}
         \cup (IF faults < MaxFaults
               THEN {[dom |-> d, o |-> "fail"] : d \in AnyDom \ {NominalDom}}
                    \cup {[dom |-> d, o |-> "die"] : d \in DeathDoms}
               ELSE {})

\* line 505 and fill_form (211-252)
FillForm ==
    /\ pc = "fill"
    /\ \E f \in FormOutcomes :
        LET screen == select_screen_condition(screen_conditions[ci], f.dom)
            ok == fill_form(screen_conditions[ci], f.dom)
        IN /\ Command(f.o)
           /\ form' = [screen |-> screen,
                       body |-> screen /\ js_check_radio(f.dom.body),
                       none |-> screen /\ js_check_checkbox(f.dom.none)]
           /\ filled' = IF ok THEN filled \cup {Position} ELSE filled
           /\ pc' = IF ok THEN "submit" ELSE "save"
    /\ UNCHANGED <<mainVars, driver, wait, short_wait, loopVars, dataVars, page, price, attempted, abort>>
    /\ UNCHANGED <<callVars, failed_at, frame>>

\* mutant: without the try/except of lines 305-319 and 256-301
submit_form_and_get_price_uncaught(o, e, p) ==
    IF o # "ok" \/ e # "ok" THEN [raised |-> TRUE, price |-> Empty, page |-> NoPage]
    ELSE [raised |-> FALSE, price |-> extract_price(p), page |-> p]

\* submit_form_and_get_price (304-319) with extract_price (255-301):
\*   o - the outcome of finding and clicking the submit control
\*   e - the outcome of reading the result page (selectors, document scan)
\*   p - the page read
\* Both functions catch Exception: the call never raises.
submit_form_and_get_price(o, e, p) ==
    IF o # "ok" THEN [raised |-> FALSE, price |-> Empty, page |-> NoPage]
    ELSE IF e # "ok" THEN [raised |-> FALSE, price |-> Empty, page |-> NoPage]
    ELSE [raised |-> FALSE, price |-> extract_price(p), page |-> p]

SubmitOutcomes ==
    IF sessions[driver] # "live" THEN {[o |-> "dead", e |-> "dead", p |-> NoPage]}
    ELSE {[o |-> "ok", e |-> "ok", p |-> NominalPage]}
         \cup (IF faults < MaxFaults
               THEN {[o |-> "ok", e |-> "ok", p |-> q] : q \in OtherPages}
                    \cup {[o |-> x, e |-> "dead", p |-> NoPage] : x \in {"fail", "die"}}
                    \cup {[o |-> "ok", e |-> x, p |-> NoPage] : x \in {"fail", "die"}}
               ELSE {})

\* line 507
Submit ==
    /\ pc = "submit"
    /\ \E x \in SubmitOutcomes :
        LET r == submit_form_and_get_price(x.o, x.e, x.p)
            died == x.o = "die" \/ x.e = "die"
            deviates == x.o \in {"fail", "die"} \/ x.e \in {"fail", "die"} \/ x.p \in OtherPages
        IN /\ sessions' = IF died THEN [sessions EXCEPT ![driver] = "dead"] ELSE sessions
           /\ faults' = faults + (IF deviates THEN 1 ELSE 0)
           /\ died_at' = IF died THEN pc ELSE died_at
           /\ price' = r.price /\ page' = r.page
           /\ pc' = IF r.raised THEN "handler" ELSE "append"
    /\ UNCHANGED <<mainVars, driver, wait, short_wait, loopVars, dataVars, form, histVars>>
    /\ UNCHANGED <<callVars, failed_at, frame>>

\* lines 509-518: the row of the current WorkUnit
result_row == [Brand |-> brands[bi], Model |-> mi, Condition |-> screen_conditions[ci], Value |-> price]

\* mutant: a row without a price is dropped
concat_priced_only(df, row) == IF row.Value = Empty THEN df ELSE Append(df, row)

\* mutant: the new row is put in front
concat_newest_first(df, row) == <<row>> \o df

\* line 526: pd.concat([results_df, pd.DataFrame([result])])
concat(df, row) == Append(df, row)

\* lines 509-527
AppendResult ==
    /\ pc = "append"
    /\ results_df' = concat(results_df, result_row)
    /\ pc' = "save"
    /\ UNCHANGED <<mainVars, sessVars, loopVars, xlsx, wuVars, histVars, died_at, faults>>
    /\ UNCHANGED <<callVars, failed_at, frame>>

\* lines 529-537: len(results_df) % 1 == 0 always holds, so the file is written after
\* every WorkUnit that reaches this line, with or without a new row; a failing
\* to_excel is caught.  Then the loop goes on.
SaveProgress ==
    /\ pc = "save"
    /\ \/ xlsx' = to_excel(results_df) /\ faults' = faults
       \/ faults < MaxFaults /\ xlsx' = xlsx /\ faults' = faults + 1
    /\ NextCondition
    /\ form' = NoForm /\ page' = NoPage /\ price' = Empty
    /\ UNCHANGED <<mainVars, sessVars, results_df, histVars, died_at>>
    /\ UNCHANGED <<callVars, failed_at, frame>>

\* mutant: line 550 is missing, short_wait stays bound to the old session
Recover_stale_short_wait ==
    /\ pc = "handler"
    /\ IF sessions[driver] = "live"
       THEN NextCondition /\ UNCHANGED <<sessVars, faults, abort, died_at>>
       ELSE \/ \* driver.quit() raises on the dead session
               /\ faults' = faults
               /\ sessions' = [sessions EXCEPT ![driver] = "quit"]
               /\ MainProcessError("recover_quit")
               /\ UNCHANGED <<driver, wait, short_wait, loopVars, died_at>>
            \/ \E s \in setup_driver_after_death :
               /\ sessions' = [i \in 1..Len(s.sessions) |-> IF i = driver THEN "quit" ELSE s.sessions[i]]
               /\ faults' = faults + s.cost
               /\ IF s.handle = 0
                  THEN MainProcessError("recover_setup") /\ UNCHANGED <<driver, wait, short_wait, loopVars, died_at>>
                  ELSE /\ driver' = s.handle /\ wait' = s.handle /\ short_wait' = short_wait
                       /\ abort' = abort /\ died_at' = "none"
                       /\ AfterRecovery
    /\ UNCHANGED <<mainVars, dataVars, wuVars, attempted, filled>>
    /\ failed_at' = "none"
    /\ frame' = IF driver' # driver THEN NoFrame ELSE frame
    /\ UNCHANGED callVars

\* lines 539-553: the probe driver.current_url; a dead session is quit and replaced,
\* then "break"; a live one means "continue".  driver.quit() and setup_driver() are
\* inside the bare except: what they raise goes to line 555.
Recover ==
    /\ pc = "handler"
    /\ IF sessions[driver] = "live"
       THEN NextCondition /\ UNCHANGED <<sessVars, faults, abort, died_at>>
       ELSE \/ \* driver.quit() raises on the dead session
               /\ faults' = faults
               /\ sessions' = [sessions EXCEPT ![driver] = "quit"]
               /\ MainProcessError("recover_quit")
               /\ UNCHANGED <<driver, wait, short_wait, loopVars, died_at>>
            \/ \E s \in setup_driver_after_death :
               /\ sessions' = [i \in 1..Len(s.sessions) |-> IF i = driver THEN "quit" ELSE s.sessions[i]]
               /\ faults' = faults + s.cost
               /\ IF s.handle = 0
                  THEN MainProcessError("recover_setup") /\ UNCHANGED <<driver, wait, short_wait, loopVars, died_at>>
                  ELSE /\ driver' = s.handle /\ wait' = s.handle /\ short_wait' = s.handle
                       /\ abort' = abort /\ died_at' = "none"
                       /\ AfterRecovery
    /\ UNCHANGED <<mainVars, dataVars, wuVars, attempted, filled>>
    /\ failed_at' = "none"
    /\ frame' = IF driver' # driver THEN NoFrame ELSE frame
    /\ UNCHANGED callVars

\* ------------------------------------------------------------- end of run
\* lines 558-568: the final save, only of a non-empty result set; failures are caught
FinalSave ==
    /\ pc = "finally"
    /\ IF results_df # <<>>
       THEN \/ xlsx' = to_excel(results_df) /\ faults' = faults
            \/ faults < MaxFaults /\ xlsx' = xlsx /\ faults' = faults + 1
       ELSE UNCHANGED <<xlsx, faults>>
    /\ pc' = "quit"
    /\ UNCHANGED <<mainVars, sessVars, loopVars, results_df, wuVars, histVars, died_at>>
    /\ UNCHANGED <<callVars, failed_at, frame>>

\* mutant: a run cut short by the handler of line 555 returns False
FinalQuit_false_after_error ==
    /\ pc = "quit"
    /\ sessions' = [sessions EXCEPT ![driver] = "quit"]
    /\ result' = (results_df # <<>> /\ abort = "none")
    /\ pc' = "returned"
    /\ UNCHANGED <<mpc, attempt, retry, success, driver, wait, short_wait, loopVars, dataVars, wuVars, histVars, died_at, faults>>
    /\ UNCHANGED <<callVars, failed_at, frame>>

\* lines 570-577: driver.quit() with its exception swallowed, then
\* return not results_df.empty
FinalQuit ==
    /\ pc = "quit"
    /\ sessions' = [sessions EXCEPT ![driver] = "quit"]
    /\ result' = (results_df # <<>>)
    /\ pc' = "returned"
    /\ UNCHANGED <<mpc, attempt, retry, success, driver, wait, short_wait, loopVars, dataVars, wuVars, histVars, died_at, faults>>
    /\ UNCHANGED <<callVars, failed_at, frame>>

Next ==
    \/ CallScrape \/ MainExcept \/ MainReturn
    \/ BrandNavigate \/ BrandFrame \/ BrandEnumerate
    \/ Navigate \/ SwitchFrame \/ SelectBrand \/ SelectModel \/ ClickNext
    \/ FillForm \/ Submit \/ AppendResult \/ SaveProgress \/ Recover
    \/ FinalSave \/ FinalQuit

Spec == Init /\ [][Next]_vars

\* ------------------------------------- select_screen_condition, step by step
\* One activation of select_screen_condition(condition) on its own, for any
\* argument and any answers of the DOM.  screen_call holds
\*   pc         - "lookup", "m1", "m2", "m3" (the next thing to run) or "return"
\*   condition  - the argument
\*   dom        - what the page answers to the script of method 1, 2 and 3
\*   element_id - condition_id_map.get(condition); "None" stands for Python's None
\*   calls      - the scripts executed so far: the method and what it looks for
\*   result     - the value returned, once pc is "return"
Conditions == {"Flawless", "Good", "Damaged", "Heavy Scratches", "flawless", ""}
ScreenDoms == [m1 : DomAnswers, m2 : DomAnswers, m3 : DomAnswers]

\* line 147: condition_id_map.get(condition)
condition_id_map_get(condition) ==
    IF condition \in DOMAIN condition_id_map THEN condition_id_map[condition] ELSE "None"

InitScreen ==
    /\ InitProgram /\ retry = 0
    /\ screen_call \in {[NoScreenCall EXCEPT !.pc = "lookup", !.condition = c, !.dom = d] :
                           c \in Conditions, d \in ScreenDoms}
    /\ brand_call = NoBrandCall
    /\ form_call = NoFormCall

ProgramVars == <<mpc, attempt, retry, success, result, pc, sessions, driver, wait, short_wait, bi, mi, ci,
                 nmodels, results_df, xlsx, form, page, price, attempted, filled, abort, died_at, failed_at, frame, faults>>

\* lines 147-150: an unmapped condition returns False before any script runs
LookUp ==
    /\ screen_call.pc = "lookup"
    /\ LET element_id == condition_id_map_get(screen_call.condition)
       IN screen_call' = IF element_id = "None"
                         THEN [screen_call EXCEPT !.pc = "return", !.result = FALSE]
                         ELSE [screen_call EXCEPT !.pc = "m1", !.element_id = element_id]
    /\ UNCHANGED <<ProgramVars, brand_call, form_call>>

\* lines 152-156: method 1, js_check_radio(element_id)
Method1 ==
    /\ screen_call.pc = "m1"
    /\ LET checked == js_check_radio(screen_call.dom.m1)
           calls == Append(screen_call.calls, [method |-> "m1", target |-> screen_call.element_id])
       IN screen_call' = IF checked
                         THEN [screen_call EXCEPT !.pc = "return", !.result = TRUE, !.calls = calls]
                         ELSE [screen_call EXCEPT !.pc = "m2", !.calls = calls]
    /\ UNCHANGED <<ProgramVars, brand_call, form_call>>

\* mutant: a failing method 2 ends the attempt
Method2_last ==
    /\ screen_call.pc = "m2"
    /\ LET calls == Append(screen_call.calls, [method |-> "m2", target |-> screen_call.element_id])
       IN screen_call' = [screen_call EXCEPT !.pc = "return", !.calls = calls,
                                             !.result = (screen_call.dom.m2 = "true")]
    /\ UNCHANGED <<ProgramVars, brand_call, form_call>>

\* lines 158-177: method 2, the radios named CPTS are searched for the value
\* element_id; an exception of the script is caught and printed
Method2 ==
    /\ screen_call.pc = "m2"
    /\ LET calls == Append(screen_call.calls, [method |-> "m2", target |-> screen_call.element_id])
       IN screen_call' = IF screen_call.dom.m2 = "true"
                         THEN [screen_call EXCEPT !.pc = "return", !.result = TRUE, !.calls = calls]
                         ELSE [screen_call EXCEPT !.pc = "m3", !.calls = calls]
    /\ UNCHANGED <<ProgramVars, brand_call, form_call>>

\* lines 179-208: method 3, the paragraphs are searched for the text condition;
\* an exception is caught and printed; after it nothing is left: return False
Method3 ==
    /\ screen_call.pc = "m3"
    /\ LET calls == Append(screen_call.calls, [method |-> "m3", target |-> screen_call.condition])
       IN screen_call' = [screen_call EXCEPT !.pc = "return", !.calls = calls,
                                             !.result = (screen_call.dom.m3 = "true")]
    /\ UNCHANGED <<ProgramVars, brand_call, form_call>>

NextScreen == LookUp \/ Method1 \/ Method2 \/ Method3

SpecScreen == InitScreen /\ [][NextScreen]_vars

\* ------------------------------------------- the brand selection, on its own
\* The brand is selected twice from the dropdown 'manufacturer': when the models
\* of a brand are listed (lines 371-396) and again in every WorkUnit (lines
\* 459-480).  Both are run here on the same dropdown, for any option texts.
\* Texts are sequences of characters; WebElement.text is already trimmed.
UpperCase == <<"A", "E", "I", "L", "M", "N", "O", "P", "S">>
LowerCase == <<"a", "e", "i", "l", "m", "n", "o", "p", "s">>

\* str.lower()
lower(t) == [i \in 1..Len(t) |->
               IF \E k \in 1..Len(UpperCase) : UpperCase[k] = t[i]
               THEN LowerCase[CHOOSE k \in 1..Len(UpperCase) : UpperCase[k] = t[i]]
               ELSE t[i]]

\* a in b, for strings
in(a, b) == \E i \in 1..(Len(b) - Len(a) + 1) : SubSeq(b, i, i + Len(a) - 1) = a

Apple == <<"A", "p", "p", "l", "e">>
Samsung == <<"S", "a", "m", "s", "u", "n", "g">>
SelectOne == <<"S", "e", "l", "e", "c", "t", " ", "O", "n", "e">>
OptionTexts == {SelectOne, <<>>, Apple, <<"A", "P", "P", "L", "E">>, Samsung, <<"S", "a", "m">>,
                <<"A", "p", "p", "l", "e", " ", "I", "n", "c">>}
Dropdowns == UNION {[1..n -> OptionTexts] : n \in 1..MaxOptions}

\* lines 385 and 467: the test that makes an option text the match
matches(brand, text) == in(lower(brand), lower(text)) \/ in(lower(text), lower(brand))

\* lines 394, 475, 479
fallback_index(brand) == IF brand = Apple THEN 1 ELSE 2

\* Select.select_by_visible_text: the first option with that text
select_by_visible_text(options, text) ==
    IF \E i \in 1..Len(options) : options[i] = text
    THEN [by |-> "text", option |-> CHOOSE i \in 1..Len(options) :
                                       options[i] = text /\ \A k \in 1..(i - 1) : options[k] # text]
    ELSE [by |-> "text", option |-> 0]

\* Select.select_by_index: the option whose index attribute is index (the first
\* option has index 0); option 0 stands for NoSuchElementException
select_by_index(options, index) ==
    [by |-> "index", option |-> IF index + 1 <= Len(options) THEN index + 1 ELSE 0]

\* lines 374-396: the placeholder and blank texts are left out of
\* available_brands, the first of the others that matches is selected by its
\* text, and without any the option at the fixed index
select_brand_for_models(brand, options) ==
    LET available == {i \in 1..Len(options) : options[i] # SelectOne /\ strip(options[i]) # Empty}
        found == {i \in available : matches(brand, strip(options[i]))}
    IN IF found # {}
       THEN select_by_visible_text(options, strip(options[CHOOSE i \in found : \A k \in found : i <= k]))
       ELSE select_by_index(options, fallback_index(brand))

\* lines 462-480: every option is tested, the loop stops at the first text that
\* matches, and "if brand_match" is false for a match that is the empty text;
\* an exception of the selection by text leads to the selection by index
select_brand_for_quote(brand, options) ==
    LET found == {i \in 1..Len(options) : matches(brand, options[i])}
        brand_match == IF found = {} THEN None ELSE options[CHOOSE i \in found : \A k \in found : i <= k]
    IN IF brand_match # None /\ brand_match # Empty
       THEN LET selected == select_by_visible_text(options, brand_match)
            IN IF selected.option = 0 THEN select_by_index(options, fallback_index(brand)) ELSE selected
       ELSE select_by_index(options, fallback_index(brand))

InitBrand ==
    /\ InitProgram /\ retry = 0
    /\ screen_call = NoScreenCall
    /\ brand_call \in {[NoBrandCall EXCEPT !.pc = "list", !.brand = b, !.options = o] :
                          b \in {Apple, Samsung}, o \in Dropdowns}
    /\ form_call = NoFormCall

\* lines 371-396, when the models of the brand are listed
SelectBrandForModels ==
    /\ brand_call.pc = "list"
    /\ brand_call' = [brand_call EXCEPT !.pc = "quote",
                          !.listed = select_brand_for_models(brand_call.brand, brand_call.options)]
    /\ UNCHANGED <<ProgramVars, screen_call, form_call>>

\* lines 459-480, in a WorkUnit of that brand
SelectBrandForQuote ==
    /\ brand_call.pc = "quote"
    /\ brand_call' = [brand_call EXCEPT !.pc = "done",
                          !.quoted = select_brand_for_quote(brand_call.brand, brand_call.options)]
    /\ UNCHANGED <<ProgramVars, screen_call, form_call>>

NextBrandCall == SelectBrandForModels \/ SelectBrandForQuote

SpecBrand == InitBrand /\ [][NextBrandCall]_vars

\* ============================================= fill_form, two activations
\* Two activations of fill_form (211-252) with their own argument and their own
\* answers to the screen selection, on pages that answer the body radio and the
\* checklist alike.  Each records the scripts its steps 2 and 3 run.

\* lines 217-220: step 1; a failed screen selection returns False
fill_form_screen(run) ==
    IF select_screen_condition(run.condition, run.dom)
    THEN [run EXCEPT !.pc = "body", !.screen = condition_id_map[run.condition]]
    ELSE [run EXCEPT !.pc = "return", !.result = FALSE]

\* mutant: the body radio follows the requested condition
fill_form_body_by_condition(run) ==
    [run EXCEPT !.pc = "issues",
                !.actions = Append(@, [call |-> "js_check_radio", check |-> TRUE,
                                       id |-> IF run.condition = "Flawless" THEN "CPBP01" ELSE "CPBP02"])]

\* lines 225-231: step 2, js_check_radio("CPBP01"); its result is printed only
fill_form_body(run) ==
    [run EXCEPT !.pc = "issues",
                !.actions = Append(@, [call |-> "js_check_radio", check |-> TRUE, id |-> "CPBP01"])]

\* lines 236-248: step 3, js_check_checkbox(issue_id, False) for every issue_id
\* of issue_checkboxes, then js_check_checkbox("CISS", True); line 252 returns True
fill_form_issues(run) ==
    [run EXCEPT !.pc = "return", !.result = TRUE,
                !.actions = @ \o [k \in 1..Len(issue_checkboxes) |->
                                     [call |-> "js_check_checkbox", check |-> FALSE, id |-> issue_checkboxes[k]]]
                              \o <<[call |-> "js_check_checkbox", check |-> TRUE, id |-> "CISS"]>>]

\* what the page answers to the three methods of the screen selection
FormScreenAnswers ==
    {[m1 |-> "true", m2 |-> "true", m3 |-> "true"],
     [m1 |-> "false", m2 |-> "true", m3 |-> "false"],
     [m1 |-> "raise", m2 |-> "false", m3 |-> "true"],
     [m1 |-> "false", m2 |-> "raise", m3 |-> "false"]}

FormRun(c, s, b, n) ==
    [NoRun EXCEPT !.pc = "screen", !.condition = c,
                  !.dom = [m1 |-> s.m1, m2 |-> s.m2, m3 |-> s.m3, body |-> b, none |-> n]]

InitForm ==
    /\ InitProgram /\ retry = 0
    /\ screen_call = NoScreenCall /\ brand_call = NoBrandCall
    /\ form_call \in {<<FormRun(c1, s1, b, n), FormRun(c2, s2, b, n)>> :
                         c1 \in Conditions, c2 \in Conditions,
                         s1 \in FormScreenAnswers, s2 \in FormScreenAnswers,
                         b \in DomAnswers, n \in DomAnswers}

FormScreen ==
    /\ \E r \in 1..2 : form_call[r].pc = "screen"
    /\ form_call' = [r \in 1..2 |-> IF form_call[r].pc = "screen"
                                     THEN fill_form_screen(form_call[r]) ELSE form_call[r]]
    /\ UNCHANGED <<ProgramVars, screen_call, brand_call>>

FormBody ==
    /\ \E r \in 1..2 : form_call[r].pc = "body"
    /\ form_call' = [r \in 1..2 |-> IF form_call[r].pc = "body"
                                     THEN fill_form_body(form_call[r]) ELSE form_call[r]]
    /\ UNCHANGED <<ProgramVars, screen_call, brand_call>>

FormIssues ==
    /\ \E r \in 1..2 : form_call[r].pc = "issues"
    /\ form_call' = [r \in 1..2 |-> IF form_call[r].pc = "issues"
                                     THEN fill_form_issues(form_call[r]) ELSE form_call[r]]
    /\ UNCHANGED <<ProgramVars, screen_call, brand_call>>

NextForm == FormScreen \/ FormBody \/ FormIssues

SpecForm == InitForm /\ [][NextForm]_vars

\* ================================================================ properties
\* what identifies the WorkUnit a row was made for, and the same for a loop position
RowKey(row) == <<row.Brand, row.Model, row.Condition>>
PositionKey(p) == <<brands[p[1]], p[2], screen_conditions[p[3]]>>
RowsAt(p) == {i \in 1..Len(results_df) : RowKey(results_df[i]) = PositionKey(p)}
RowKeys == {RowKey(results_df[i]) : i \in 1..Len(results_df)}
Values == {results_df[i].Value : i \in 1..Len(results_df)}
WorkUnitStages == {"nav", "frame", "sel_brand", "sel_model", "click_next", "fill", "submit", "append", "save"}

\* C1 (as claimed): when a run has returned, every WorkUnit whose loop body was
\* entered has exactly one row in the result set.
C1_EveryWorkUnitHasOneRecord ==
    pc = "returned" => \A p \in attempted : Cardinality(RowsAt(p)) = 1

\* C1 (amended): when a run has returned, the result set holds exactly one row for
\* every entered WorkUnit for which fill_form returned True, no row for an entered
\* WorkUnit that failed before that, and no row for anything else.
C1_OneRecordPerFilledWorkUnit ==
    pc = "returned" =>
        /\ \A p \in attempted : Cardinality(RowsAt(p)) = (IF p \in filled THEN 1 ELSE 0)
        /\ RowKeys \subseteq {PositionKey(p) : p \in attempted}

\* a finished run in which one WorkUnit failed before its form was filled and
\* another one was filled
C1_Witness ==
    /\ pc = "returned"
    /\ \E p \in attempted : p \notin filled
    /\ \E p \in attempted : p \in filled /\ RowsAt(p) # {}

\* C2 (as claimed): a failure in a stage of a WorkUnit with the session alive never
\* aborts the run: the WorkUnit's navigation sends the run to the handler of
\* line 555 only when the session is not alive.
C2_LiveFailureNeverAbortsRun ==
    abort = "wu_nav" => sessions[driver] # "live"

\* C3 (as claimed): a session that died in a stage of a WorkUnit is replaced before
\* the loop leaves that WorkUnit: a dead one is seen only in the later stages of
\* that WorkUnit and in its handler, never at the start of the next WorkUnit or
\* brand and never at the end of the run.
C3_DeathInWorkUnitIsRecovered ==
    (driver # 0 /\ sessions[driver] = "dead" /\ died_at \in WorkUnitStages)
        => pc \in ((WorkUnitStages \ {"nav"}) \cup {"handler"})

\* C4 (as claimed): at most one browser session is live.
C4_AtMostOneLiveSession ==
    Cardinality(LiveSessions) <= 1

\* C5 (as claimed): the form is submitted only if the screen condition, the body
\* condition and the "none of the above" step all succeeded.
C5_SubmitOnlyIfAllSubstepsSucceeded ==
    pc = "submit" => (form.screen /\ form.body /\ form.none)

\* what C6 claims the parser returns: the number after the first RM, its thousands
\* separators removed and its decimal fraction kept
RECURSIVE WithoutCommas(_)
WithoutCommas(t) ==
    IF t = <<>> THEN <<>>
    ELSE IF Head(t) = "," THEN WithoutCommas(Tail(t))
    ELSE <<Head(t)>> \o WithoutCommas(Tail(t))
EndNumber(t, i) == CHOOSE j \in i..(Len(t) + 1) :
    /\ \A k \in i..(j - 1) : IsDigit(t[k]) \/ t[k] \in {",", "."}
    /\ (j = Len(t) + 1 \/ ~(IsDigit(t[j]) \/ t[j] \in {",", "."}))
ClaimedNumber(t) ==
    IF ~MatchesCurrency(t) THEN Empty
    ELSE LET i == CHOOSE i \in 1..Len(t) : CurrencyAt(t, i) /\ \A k \in 1..(i - 1) : ~CurrencyAt(t, k)
             j == EndSpaces(t, i + 2)
         IN WithoutCommas(SubSeq(t, j, EndNumber(t, j) - 1))

\* C6 (as claimed): the value parsed from a price text is the full number after RM
\* with the thousands separators removed ("RM 1,234" gives "1234"), and empty when
\* the text has no currency marker.
C6_ParserReturnsFullNumber ==
    (pc = "append" /\ page # NoPage) => price = ClaimedNumber(price_text_of(page))

\* C7 (as claimed): extraction that read the result page returns the empty string
\* only if no text of the page matches RM followed by digits.
C7_EmptyOnlyIfNothingMatches ==
    (pc = "append" /\ page # NoPage /\ price = Empty)
        => \A i \in 1..Len(page.elems) : ~MatchesCurrency(page.elems[i])

\* C8 (as claimed): whenever something failed inside submit_form_and_get_price or
\* extract_price - the submit control is missing, a script raises, the session is
\* dead (no page is read) or every selector timed out (sel is None) - the value
\* returned is "".
C8_EveryFailureGivesEmpty ==
    (pc = "append" /\ page.sel = None) => price = Empty

\* C8 (amended): the call of submit_form_and_get_price never raises: from line 507
\* control always reaches the row's creation; when the submit control could not be
\* clicked, a script raised or the session is dead, the value is ""; when every
\* selector timed out, the value is what the document scan yields.
C8_SubmitNeverRaises ==
    [][pc = "submit" =>
        /\ pc' = "append"
        /\ (sessions'[driver] # "live" => price' = Empty)
        /\ (faults' > faults /\ page' \notin OtherPages => price' = Empty)
        /\ (page' \in ResultPages /\ page'.sel = None => price' = parse_price(js_scan(page'.elems)))]_vars

\* submission failed (no page was read) and the row was appended all the same
C8_Witness ==
    /\ pc = "save" /\ Position \in filled
    /\ page = NoPage /\ price = Empty
    /\ \E i \in RowsAt(Position) : results_df[i].Value = Empty

\* C9: no position (brand, model, condition) has more than one row: the rows'
\* keys are pairwise different.
C9_AtMostOneRecordPerWorkUnit ==
    Cardinality(RowKeys) = Len(results_df)

\* rows were appended before and after a recovery in the same run
C9_Witness ==
    /\ attempt = 0 /\ driver >= 2 /\ sessions[driver] = "live"
    /\ \E i, j \in 1..Len(results_df) : results_df[i].Model # results_df[j].Model

\* a string of digits with an optional decimal fraction
IsNumeric(v) ==
    /\ v # <<>> /\ IsDigit(v[1]) /\ IsDigit(v[Len(v)])
    /\ \A k \in 1..Len(v) : IsDigit(v[k]) \/ v[k] = "."
    /\ Cardinality({k \in 1..Len(v) : v[k] = "."}) <= 1

\* C10: every WorkUnit whose form was filled has its row once line 526 was passed,
\* whatever was extracted, and every row's Value is "" or a string of digits with
\* an optional decimal fraction.
C10_FilledHasRecordWithNumericValue ==
    /\ {PositionKey(p) : p \in filled}
           \subseteq (RowKeys \cup (IF pc \in {"submit", "append"} THEN {PositionKey(Position)} ELSE {}))
    /\ \A v \in Values : v = Empty \/ IsNumeric(v)

\* the page was read, no price was found in it, and the row is there with Value ""
C10_Witness ==
    /\ pc = "save" /\ Position \in filled /\ page \in ResultPages
    /\ \E i \in RowsAt(Position) : results_df[i].Value = Empty

\* C11 (as claimed): between two WorkUnits (at the start of the next loop body, of
\* the next brand, or at the end of the loop) the output file holds every row
\* appended to results_df so far.
C11_FileHoldsEveryRecord ==
    pc \in {"nav", "b_nav", "finally"} => xlsx.rows = results_df

\* what C12 claims the mapping to be
ClaimedCode(condition) ==
    IF condition = "Flawless" THEN "CPTS01"
    ELSE IF condition = "Good" THEN "CPTS02"
    ELSE IF condition = "Damaged" THEN "CPTS04"
    ELSE "None"
IdCalls == {i \in 1..Len(screen_call.calls) : screen_call.calls[i].method \in {"m1", "m2"}}

\* C12: the scripts that look for a radio by its code are given CPTS01 for
\* Flawless, CPTS02 for Good and CPTS04 for Damaged, never CPTS03; for any other
\* condition string no script of the three methods is executed and the function
\* returns False.
C12_MappingSkipsHeavyScratches ==
    /\ \A i \in IdCalls : /\ screen_call.calls[i].target = ClaimedCode(screen_call.condition)
                          /\ screen_call.calls[i].target # "CPTS03"
    /\ ClaimedCode(screen_call.condition) = "None"
           => /\ screen_call.calls = <<>>
              /\ screen_call.pc \in {"lookup", "return"}
              /\ ~screen_call.result

\* the function returned for "Heavy Scratches" although the page would have
\* answered every script
C12_Witness ==
    /\ screen_call.pc = "return" /\ screen_call.condition = "Heavy Scratches"
    /\ screen_call.dom = [m1 |-> "true", m2 |-> "true", m3 |-> "true"]
    /\ screen_call.calls = <<>> /\ ~screen_call.result

\* the answer of the page to the k-th script executed
AnswerTo(k) == IF k = 1 THEN screen_call.dom.m1 ELSE IF k = 2 THEN screen_call.dom.m2 ELSE screen_call.dom.m3
MethodOrder == <<"m1", "m2", "m3">>

\* C13: the scripts run in the order method 1, method 2, method 3; one runs only
\* if every earlier one answered false or raised; a call that returned did so
\* with True right after the first script that answered true, and with False
\* exactly when all three were run and none answered true.
C13_StrategiesInOrderFirstSuccessWins ==
    /\ Len(screen_call.calls) <= Len(MethodOrder)
    /\ \A i \in 1..Len(screen_call.calls) :
          /\ screen_call.calls[i].method = MethodOrder[i]
          /\ \A j \in 1..(i - 1) : AnswerTo(j) # "true"
    /\ (screen_call.pc = "return" /\ screen_call.element_id # "None")
          => /\ screen_call.result = (AnswerTo(Len(screen_call.calls)) = "true")
             /\ ~screen_call.result <=> (Len(screen_call.calls) = Len(MethodOrder)
                                           /\ \A k \in 1..Len(MethodOrder) : AnswerTo(k) # "true")
             /\ screen_call.result = select_screen_condition(screen_call.condition, screen_call.dom)

\* method 1 answered false, method 2 raised, method 3 selected the radio
C13_Witness ==
    /\ screen_call.pc = "return" /\ screen_call.result
    /\ screen_call.dom = [m1 |-> "false", m2 |-> "raise", m3 |-> "true"]
    /\ Len(screen_call.calls) = Len(MethodOrder)

\* the stage that follows a stage of a WorkUnit, up to the row and its save
StageAfter == [nav |-> "frame", frame |-> "sel_brand", sel_brand |-> "sel_model", sel_model |-> "click_next",
               click_next |-> "fill", fill |-> "submit", submit |-> "append", append |-> "save"]
\* the step taken ran the stage at pc and the stage reported success
StageSucceeded ==
    IF pc \in {"nav", "frame", "sel_brand", "sel_model", "click_next"}
    THEN faults' = faults /\ sessions'[driver] = "live"
    ELSE IF pc = "fill" THEN Position \in filled'
    ELSE TRUE
\* the step taken left the WorkUnit for a later one, or for the end of the loops
\* when none is left
MovedToLaterWorkUnit ==
    \/ pc' = "nav" /\ <<bi', mi', ci'>> # Position
    \/ pc' = "b_nav" /\ bi' > bi /\ mi = nmodels /\ ci = Len(screen_conditions)
    \/ pc' = "finally" /\ bi = Len(brands) /\ mi = nmodels /\ ci = Len(screen_conditions)

\* what C14 allows a step inside a WorkUnit to be
OrderedStep ==
    pc \in WorkUnitStages =>
        \/ pc # "save" /\ StageSucceeded /\ pc' = StageAfter[pc] /\ <<bi', mi', ci'>> = Position
        \/ pc = "fill" /\ ~StageSucceeded /\ pc' = "save" /\ <<bi', mi', ci'>> = Position
        \/ pc # "save" /\ ~StageSucceeded /\ pc' = "handler" /\ <<bi', mi', ci'>> = Position
        \/ (pc = "save" \/ ~StageSucceeded) /\ MovedToLaterWorkUnit

\* C14 (as claimed): inside a WorkUnit every step either goes from a stage that
\* succeeded to the stage after it, or - the stage having failed, or the row
\* being saved - leaves the WorkUnit (through the handler or directly) and the
\* loop goes on with a later WorkUnit as long as one is left.
C14_StagesInOrderFailureEndsWorkUnit == [][OrderedStep]_vars

\* C15: with --retry R the loop of __main__ starts at most R+1 runs; a run is
\* started or in progress only while no earlier run reported success, and every
\* earlier run left an empty result set; success is reported only at the end,
\* with the non-empty result set of the run that stopped the loop; failure is
\* reported only after R+1 runs, the last of which left nothing.
C15_BoundedRetryUntilFirstSuccess ==
    /\ attempt <= retry + 1
    /\ mpc \in {"loop", "call"} => (attempt <= retry /\ ~success)
    /\ mpc = "loop" => results_df = <<>>
    /\ success => (mpc = "done" /\ attempt <= retry /\ results_df # <<>>)
    /\ (mpc = "done" /\ ~success) => (attempt = retry + 1 /\ results_df = <<>>)

\* the second run succeeded after the first reported failure or raised
C15_Witness ==
    mpc = "done" /\ success /\ retry = MaxRetry /\ attempt = 1 /\ results_df # <<>>

\* C16: a call of scrape_trade_in_prices that got its session leaves by the
\* return of line 577, never by an exception, and what it returns is True
\* exactly when results_df is not empty, after a complete loop as well as after
\* the handler of line 555.
C16_ReturnsTrueIffResultsNonEmpty ==
    /\ pc = "raised" => (driver = 0 /\ abort = "none")
    /\ pc = "returned" => (result <=> results_df # <<>>)

\* a run that was cut short by a main-process error after a row was appended
\* returned True
C16_Witness ==
    pc = "returned" /\ abort # "none" /\ results_df # <<>> /\ result

\* what C17 claims a brand selection to be
IsPlaceholder(text) == text = SelectOne \/ strip(text) = Empty
ClaimedMatches(brand, options) ==
    {i \in 1..Len(options) : ~IsPlaceholder(options[i]) /\ matches(brand, options[i])}
ClaimedSelection(brand, options) ==
    IF ClaimedMatches(brand, options) # {}
    THEN [by |-> "text", option |-> CHOOSE i \in ClaimedMatches(brand, options) :
                                        \A k \in ClaimedMatches(brand, options) : i <= k]
    ELSE select_by_index(options, fallback_index(brand))

\* C17 (as claimed): both brand selections choose, by its text, the first option
\* that is no placeholder and whose text contains the brand or is contained in
\* it, ignoring case, and use the fixed index only when there is no such option.
C17_FirstMatchElseFallback ==
    /\ brand_call.pc \in {"quote", "done"}
           => brand_call.listed = ClaimedSelection(brand_call.brand, brand_call.options)
    /\ brand_call.pc = "done"
           => brand_call.quoted = ClaimedSelection(brand_call.brand, brand_call.options)

\* what C18 says of a step: the model text not being found is an exception that
\* goes to the handler with the session untouched, and the handler, finding the
\* session alive, goes on with the next condition of the same model and keeps
\* the session; neither step appends a row
ModelNotFoundStep ==
    /\ (pc = "sel_model" /\ faults' > faults /\ sessions'[driver] = "live")
           => /\ pc' = "handler" /\ failed_at' = "sel_model"
              /\ <<bi', mi', ci'>> = Position
              /\ UNCHANGED <<results_df, sessVars>>
    /\ (pc = "handler" /\ failed_at = "sel_model" /\ sessions[driver] = "live")
           => /\ UNCHANGED <<results_df, sessVars>>
              /\ RowsAt(Position) = {}
              /\ IF ci < Len(screen_conditions)
                 THEN pc' = "nav" /\ <<bi', mi', ci'>> = <<bi, mi, ci + 1>>
                 ELSE pc' \in {"nav", "b_nav", "finally"} /\ <<bi', mi'>> # <<bi, mi>>

\* C18: a WorkUnit whose model text is not in the dropdown is skipped: nothing is
\* appended for it, a live session is kept, and the loop goes on with the next
\* condition of the same model (with the next model after the last condition).
C18_ModelNotFoundSkipsWorkUnit == [][ModelNotFoundStep]_vars

\* the handler is handling a model text that was not found, with the session
\* alive, rows already appended and a condition of the same model left
C18_Witness ==
    /\ pc = "handler" /\ failed_at = "sel_model" /\ sessions[driver] = "live"
    /\ ci < Len(screen_conditions) /\ results_df # <<>>

\* what C19 says of a step: the handler that finds the session dead gets to the
\* creation of the new session whether or not driver.quit() fails on the dead
\* one, and the quit of the finally block is always followed by the return
DestroyIsSafeStep ==
    /\ (pc = "handler" /\ sessions[driver] # "live") => abort' # "recover_quit"
    /\ pc = "quit" => (pc' = "returned" /\ abort' = abort)

\* C19 (as claimed): the probe does not raise, and a destroy call that fails on a
\* dead session raises neither out of recovery, which goes on to create the new
\* session, nor out of the shutdown at the end of the run.
C19_DestroyNeverRaises == [][DestroyIsSafeStep]_vars

\* what C20 says of the handler's step
RecoveryStep ==
    /\ (pc = "handler" /\ sessions[driver] # "live")
           => /\ Len(sessions') = Len(sessions) + 1
              /\ driver' = Len(sessions') /\ sessions'[driver'] = "live"
              /\ results_df' = results_df
              /\ IF mi < nmodels
                 THEN pc' = "nav" /\ <<bi', mi', ci'>> = <<bi, mi + 1, 1>>
                 ELSE pc' \in {"b_nav", "finally"} /\ abort' = abort
    /\ (pc = "handler" /\ sessions[driver] = "live")
           => /\ UNCHANGED <<sessVars, results_df>>
              /\ IF ci < Len(screen_conditions)
                 THEN pc' = "nav" /\ <<bi', mi', ci'>> = <<bi, mi, ci + 1>>
                 ELSE <<bi', mi'>> # <<bi, mi>>

\* C20 (as claimed): a handler that finds the session dead creates exactly one new
\* session, leaves results_df as it is and goes on with the first condition of
\* the next model (with the next brand or the end of the loops after the last
\* model); one that finds it alive creates none and goes on with the next
\* condition of the same model.
C20_RecoveryRecreatesOnceAndSkipsModel == [][RecoveryStep]_vars

\* the stages of a WorkUnit that act on the form inside the frame
FrameStages == {"sel_brand", "sel_model", "click_next", "fill", "submit"}

\* C21: a selection, form or submit stage of a WorkUnit runs in the frame that
\* was entered in this same WorkUnit, after its own driver.get(URL): never in
\* the top-level document and never in a frame entered for an earlier WorkUnit
\* or for the listing of the models.
C21_StagesRunInFreshFrame ==
    pc \in FrameStages => (frame = Position /\ Position \in attempted)

\* a later WorkUnit is selecting in its own frame after an earlier WorkUnit of
\* the same model went through its frame and left a row
C21_Witness ==
    /\ pc = "sel_brand" /\ ci > 1 /\ frame = Position
    /\ RowsAt(<<bi, mi, ci - 1>>) # {}

\* sessions created at or after the current handle: all of them were created by
\* the run that holds the handle
SessionsOfRun == {i \in 1..Len(sessions) : i >= driver}

C22_FileWrittenOnExit == results_df # <<>> => xlsx = to_excel(results_df)
C22_NoSessionLeftLive == \A i \in SessionsOfRun : sessions[i] # "live"

\* C22: when a run that created its session has returned (after the loops
\* finished or after the handler of line 555), a non-empty result set is in the
\* output file and no session created by the run is live.
C22_ExitSavesAndDestroys ==
    pc = "returned" => (C22_FileWrittenOnExit /\ C22_NoSessionLeftLive)

\* the scripts of fill_form's steps 2 and 3 as claimed: the flawless-body radio,
\* every known defect box unchecked, then "none of the above" checked
ClaimedFormActions ==
    <<[call |-> "js_check_radio", check |-> TRUE, id |-> "CPBP01"],
      [call |-> "js_check_checkbox", check |-> FALSE, id |-> "CBAT"],
      [call |-> "js_check_checkbox", check |-> FALSE, id |-> "CTON"],
      [call |-> "js_check_checkbox", check |-> FALSE, id |-> "CBRK"],
      [call |-> "js_check_checkbox", check |-> FALSE, id |-> "CLIQ"],
      [call |-> "js_check_checkbox", check |-> FALSE, id |-> "CMIS"],
      [call |-> "js_check_checkbox", check |-> TRUE, id |-> "CISS"]>>

PassedScreen(run) == run.screen # "None"

\* C23: two activations of fill_form whose requested conditions both passed the
\* screen selection have run the same body and checklist scripts, whatever the
\* two conditions are; when they return these are the claimed seven scripts, and
\* the result is that of fill_form.
C23_ConditionInfluencesOnlyScreenRadio ==
    /\ (PassedScreen(form_call[1]) /\ PassedScreen(form_call[2]))
          => form_call[1].actions = form_call[2].actions
    /\ \A r \in 1..2 :
          form_call[r].pc = "return" =>
             /\ form_call[r].result = fill_form(form_call[r].condition, form_call[r].dom)
             /\ form_call[r].actions = IF form_call[r].result THEN ClaimedFormActions ELSE <<>>

\* Flawless and Damaged, selected by different methods, set different screen
\* radios and have both returned True after the same seven scripts
C23_Witness ==
    /\ form_call[1].pc = "return" /\ form_call[2].pc = "return"
    /\ form_call[1].result /\ form_call[2].result
    /\ form_call[1].condition = "Flawless" /\ form_call[2].condition = "Damaged"
    /\ form_call[1].screen = "CPTS01" /\ form_call[2].screen = "CPTS04"
    /\ form_call[1].dom.m1 # form_call[2].dom.m1
    /\ Len(form_call[1].actions) = 7

\* where a row stands in the enumeration: brand list order, model dropdown order,
\* then Flawless, Good, Damaged
BrandIndex(b) == CHOOSE i \in 1..Len(brands) : brands[i] = b
ConditionIndex(c) == CHOOSE i \in 1..Len(screen_conditions) : screen_conditions[i] = c
EnumerationIndex(row) ==
    (BrandIndex(row.Brand) * (MaxModels + 1) + row.Model) * (Len(screen_conditions) + 1)
        + ConditionIndex(row.Condition)

\* results_df stays as it is, or gets one row at its end that comes later in the
\* enumeration than the row before it
AppendOnlyStep ==
    \/ results_df' = results_df
    \/ /\ Len(results_df') = Len(results_df) + 1
       /\ SubSeq(results_df', 1, Len(results_df)) = results_df
       /\ results_df # <<>> =>
             EnumerationIndex(results_df[Len(results_df)]) < EnumerationIndex(results_df'[Len(results_df')])

\* C24: no step (a failing stage, the recovery, a progress save, the final save,
\* the start of a retry) removes or changes a row of results_df, and the rows
\* stand in enumeration order.
C24_ResultsAppendOnlyInOrder == [][AppendOnlyStep]_vars

\* a run has returned with the rows of Flawless and Damaged of one model: the
\* WorkUnit of Good between them failed and the final save has been done
C24_Witness ==
    /\ pc = "returned" /\ Len(results_df) >= 2
    /\ results_df[1].Condition = "Flawless" /\ results_df[2].Condition = "Damaged"
    /\ results_df[1].Brand = results_df[2].Brand /\ results_df[1].Model = results_df[2].Model
    /\ xlsx.exists

\* the positions at which the run sends commands to the browser: through driver,
\* or through wait and short_wait (nested functions read driver and short_wait
\* of the enclosing function at the time of the call)
OperatingStages ==
    {"b_nav", "b_frame", "b_enum", "nav", "frame", "sel_brand", "sel_model", "click_next", "fill", "submit"}

\* C25: whenever a stage is about to operate, driver, wait and short_wait refer
\* to one and the same session, and that session has not been quit: after a
\* recovery it is the newly created one.
C25_StagesUseCurrentSession ==
    pc \in OperatingStages =>
        /\ driver \in 1..Len(sessions) /\ sessions[driver] # "quit"
        /\ wait = driver /\ short_wait = driver

\* after a recovery (the first session was quit, the second is bound), a later
\* WorkUnit is about to submit its form and read the price through short_wait
C25_Witness ==
    /\ pc = "submit" /\ Len(sessions) = 2
    /\ sessions[1] = "quit" /\ sessions[2] = "live"
    /\ driver = 2 /\ wait = 2 /\ short_wait = 2

\* A variant: how far the invocation has come.  Within a run, the loop position
\* and then the stage; a run in its finally block is beyond every loop
\* position; each further attempt is beyond every position of the one before.
\* Ten ranks are kept for the stages of one loop position.
StageRank ==
    [idle |-> 0, b_nav |-> 1, b_frame |-> 2, b_enum |-> 3,
     nav |-> 1, frame |-> 2, sel_brand |-> 3, sel_model |-> 4, click_next |-> 5,
     handler |-> 6, fill |-> 6, submit |-> 7, append |-> 8, save |-> 9,
     finally |-> 0, quit |-> 1, returned |-> 2, raised |-> 2]
LoopRank == (bi * (MaxModels + 1) + mi) * (Len(screen_conditions) + 1) + ci
EndOfLoops == (Len(brands) + 1) * (MaxModels + 1) * (Len(screen_conditions) + 1) * 10
RunRank ==
    IF mpc = "done" THEN EndOfLoops + 3
    ELSE IF pc = "idle" THEN 0
    ELSE IF pc \in {"finally", "quit", "returned", "raised"} THEN EndOfLoops + StageRank[pc]
    ELSE LoopRank * 10 + StageRank[pc]
Progress == attempt * (EndOfLoops + 4) + RunRank
MaxProgress == (MaxRetry + 1) * (EndOfLoops + 4) + EndOfLoops + 3

LaterModel == bi' > bi \/ (bi' = bi /\ mi' > mi)

TerminatingStep ==
    /\ Progress' > Progress /\ Progress' <= MaxProgress
    /\ pc' = "nav" => <<bi', mi', ci'>> \notin attempted
    /\ (pc = "handler" /\ driver' # driver) => (LaterModel \/ pc' = "finally")
    /\ (mpc = "loop" /\ mpc' = "call") => attempt <= retry

\* C26: every step takes the invocation further in a bounded order (runs, then
\* brands, models, conditions, then the stages of a WorkUnit), so every run and
\* the invocation end; a WorkUnit's loop body is entered only once per run, a
\* recovery goes on with a later model or ends the loops, and
\* scrape_trade_in_prices is called for attempts 0..R only.
C26_EveryStepAdvances == [][TerminatingStep]_vars

\* the invocation has finished in its second run: the first run ended without
\* a row, the second ran the loops to their end
C26_Witness ==
    /\ mpc = "done" /\ attempt = 1 /\ retry = 1 /\ success
    /\ Len(sessions) >= 2 /\ results_df # <<>> /\ abort = "none"

\* C27 (as claimed): for every dropdown content, the per-WorkUnit brand selection
\* (462-480) selects the option that the selection made when the brand's models
\* were listed (374-396) selected.
C27_QuoteSelectsListedBrand ==
    brand_call.pc = "done" => brand_call.quoted.option = brand_call.listed.option

IsPrefix(a, b) == Len(a) <= Len(b) /\ SubSeq(b, 1, Len(a)) = a

\* C28: when a retry is about to start, the run before it has appended no row
\* and the output file holds no row; so at any time the rows of the file are
\* rows of the run that wrote them last, and a write replaces only rows that
\* the written result set holds as well.
C28_RetryOnlyAfterEmptyRuns ==
    /\ (mpc = "loop" /\ attempt >= 1) => (results_df = <<>> /\ xlsx.rows = <<>>)
    /\ IsPrefix(xlsx.rows, results_df)

\* the retry has appended its first row and is about to replace the file that
\* the first attempt left behind without a row
C28_Witness ==
    /\ mpc = "call" /\ attempt = 1 /\ pc = "save"
    /\ xlsx.exists /\ xlsx.rows = <<>> /\ results_df # <<>>

====
